---- MODULE Spec2Model ----
(***************************************************************************)
(* Model of src/bot.py: the ECCues Telegram bot.                           *)
(*                                                                         *)
(* Python strings are sequences of one-character strings, so that          *)
(* lower(), strip(), the regular expressions and the substring scans are   *)
(* computed character by character, as the code computes them.             *)
(* Optional values (a row or None, a match or None) are sequences of       *)
(* length 0 or 1.  A dict is a function whose DOMAIN is its key set.       *)
(***************************************************************************)
EXTENDS Integers, Sequences, FiniteSets, Bags, TLC

(***************************************************************************)
(* Characters and the str methods the code uses.                           *)
(***************************************************************************)
UpperSeq == <<"A","B","C","D","E","F","G","H","I","J","K","L","M",
              "N","O","P","Q","R","S","T","U","V","W","X","Y","Z">>
LowerSeq == <<"a","b","c","d","e","f","g","h","i","j","k","l","m",
              "n","o","p","q","r","s","t","u","v","w","x","y","z">>
UpperLetters == {UpperSeq[i] : i \in 1..26}
LowerLetters == {LowerSeq[i] : i \in 1..26}
\* [A-Za-z]
AsciiLetters == UpperLetters \cup LowerLetters
\* \d (the ASCII digits of it)
Digits == {"0","1","2","3","4","5","6","7","8","9"}
DigitSeq == <<"0","1","2","3","4","5","6","7","8","9">>
\* the non-ASCII letters that occur in the strings of the code and in the
\* texts of the model, each named by its code point (U+1EA5 is a with
\* circumflex and acute, U+01B0 u with horn, U+1EDD o with horn and grave):
\* lower-case already, word characters for \b, outside [A-Za-z]
AccentedLetters == {"U+1EA5", "U+01B0", "U+1EDD", "U+1EC7", "U+00F4", "U+00E3",
                    "U+1EAB", "U+0111", "U+1ECD"}
\* \w of a Python str pattern
WordChars == AsciiLetters \cup Digits \cup AccentedLetters \cup {"_"}
\* \s, and what str.strip() removes
Whitespace == {" "}

\* str.lower() on one character
LowerChar(c) ==
    IF c \in UpperLetters
    THEN LowerSeq[CHOOSE i \in 1..26 : UpperSeq[i] = c]
    ELSE c

\* str.lower()
Lower(s) == [i \in 1..Len(s) |-> LowerChar(s[i])]

\* s[a-1:b] of Python, as 1-based inclusive positions a..b
Slice(s, a, b) == IF a > b THEN << >> ELSE SubSeq(s, a, b)

\* str.strip()
Strip(s) ==
    LET nonws == {i \in 1..Len(s) : s[i] \notin Whitespace}
    IN  IF nonws = {} THEN << >>
        ELSE Slice(s, CHOOSE i \in nonws : \A j \in nonws : i <= j,
                      CHOOSE i \in nonws : \A j \in nonws : i >= j)

\* \b between s[p] and s[p+1], p in 0..Len(s)
WordBoundary(s, p) ==
    LET before == p >= 1 /\ s[p] \in WordChars
        after  == p < Len(s) /\ s[p + 1] \in WordChars
    IN  before # after

\* the literal w occurs in s at position i
LiteralAt(s, i, w) ==
    /\ i >= 1
    /\ i + Len(w) - 1 <= Len(s)
    /\ \A j \in 1..Len(w) : s[i + j - 1] = w[j]

\* length of the longest run of characters of class cls starting at s[i]
RECURSIVE RunLen(_, _, _)
RunLen(s, i, cls) ==
    IF i > Len(s) \/ s[i] \notin cls THEN 0 ELSE 1 + RunLen(s, i + 1, cls)

\* one pattern character of a regular expression against one character:
\* "." matches any character, every other character of the model's
\* alphabet is literal
PatChar(p, c) == p = "." \/ p = c

\* pandas Series.str.contains(pat, na=False) on one cell: regex=True is the
\* default, so pat is a regular expression searched anywhere in the cell
StrContains(cell, pat) ==
    \E i \in 1..(Len(cell) - Len(pat) + 1) :
        \A j \in 1..Len(pat) : PatChar(pat[j], cell[i + j - 1])

\* " ".join(parts)
RECURSIVE Join(_, _)
Join(sep, parts) ==
    IF Len(parts) = 0 THEN << >>
    ELSE IF Len(parts) = 1 THEN parts[1]
    ELSE parts[1] \o sep \o Join(sep, Tail(parts))

\* str(n) for n >= 0
RECURSIVE IntToStr(_)
IntToStr(n) ==
    IF n < 10 THEN <<DigitSeq[n + 1]>>
    ELSE IntToStr(n \div 10) \o <<DigitSeq[(n % 10) + 1]>>

None == << >>
Some(x) == <<x>>

(***************************************************************************)
(* The catalog: a DataFrame is a sequence of rows, a row a function from   *)
(* column names to cells.  Cells are the strings astype(str) and str()     *)
(* give; "" is the cell of a column load_catalog added.                    *)
(***************************************************************************)

\* row.get(col, "")
RowGet(row, col) == IF col \in DOMAIN row THEN row[col] ELSE << >>

\* the literal strings of the code, character by character
S_trieu    == <<" ","t","r","i","U+1EC7","u">>
S_nocode   == <<"(","k","h","U+00F4","n","g"," ","m","U+00E3",")">>
S_chosen   == <<"m","U+1EAB","u"," ","U+0111","U+00E3"," ","c","h","U+1ECD","n">>
S_thuong_l == <<"T","h","U+01B0","U+1EDD","n","g"," ">>
S_caocap_l == <<"C","a","o"," ","c","U+1EA5","p"," ">>
S_cao      == <<"c","a","o">>
S_cap      == <<"c","U+1EA5","p">>
S_cao_cap  == <<"c","a","o"," ","c","a","p">>
S_thuong   == <<"t","h","U+01B0","U+1EDD","n","g">>
S_thuong_a == <<"t","h","u","o","n","g">>

\* re.search(r"(\d+)", s): the first run of decimal digits, or None
FirstDigitRun(s) ==
    LET at == {i \in 1..Len(s) : s[i] \in Digits}
    IN  IF at = {} THEN None
        ELSE LET i == CHOOSE i \in at : \A j \in at : i <= j
             IN  Some(Slice(s, i, i + RunLen(s, i, Digits) - 1))

\* a formatter that puts the whole text before the suffix
clean_price_text_KeepsText(s) ==
    IF s = << >> THEN << >>
    ELSE LET t == Strip(s)
             m == FirstDigitRun(t)
         IN  IF m = None THEN t ELSE t \o S_trieu

clean_price_text(s) ==
    IF s = << >> THEN << >>
    ELSE LET t == Strip(s)
             m == FirstDigitRun(t)
         IN  IF m = None THEN t ELSE m[1] \o S_trieu

\* the end of the match of r"\b([A-Za-z]*\d{2,}[A-Za-z0-9]*)\b" that starts
\* at q[i], or 0.  [A-Za-z]* must take the whole letter run (a shorter one
\* is followed by a letter, which \d refuses) and [A-Za-z0-9]* the whole
\* alphanumeric run (a shorter one ends between two word characters, which
\* the closing \b refuses), so backtracking has one candidate to try.
CodeTokenEnd(q, i) ==
    LET k == RunLen(q, i, AsciiLetters)
        d == RunLen(q, i + k, Digits)
        e == RunLen(q, i + k + d, AsciiLetters \cup Digits)
        last == i + k + d + e - 1
    IN  IF WordBoundary(q, i - 1) /\ d >= 2 /\ WordBoundary(q, last)
        THEN last ELSE 0

\* re.search of the code pattern: m.group(1) of the leftmost match, or None
CodeToken(q) ==
    LET at == {i \in 1..Len(q) : CodeTokenEnd(q, i) # 0}
    IN  IF at = {} THEN None
        ELSE LET i == CHOOSE i \in at : \A j \in at : i <= j
             IN  Some(Slice(q, i, CodeTokenEnd(q, i)))

RowMask_CaseSensitive(row, pat) == \E c \in DOMAIN row : StrContains(row[c], pat)

\* mask |= df[c].astype(str).str.lower().str.contains(pat, na=False), over
\* every column c: the mask of one row
RowMask(row, pat) == \E c \in DOMAIN row : StrContains(Lower(row[c]), pat)

\* subset = df[mask]: the positions of the rows kept, in catalog order
Subset(df, pat) == {i \in 1..Len(df) : RowMask(df[i], pat)}

\* subset.iloc[0]
Iloc0(df, subset) == df[CHOOSE i \in subset : \A j \in subset : i <= j]

\* the keyword phase (the second scan)
KeywordPhase(q, df) ==
    LET subset == Subset(df, Lower(q))
    IN  IF subset # {} THEN Some(Iloc0(df, subset)) ELSE None

find_by_sku_or_keyword_KeywordFirst(q, df) ==
    IF Len(df) = 0 THEN None
    ELSE IF KeywordPhase(q, df) # None THEN KeywordPhase(q, df)
    ELSE LET m == CodeToken(q)
             subset == IF m # None THEN Subset(df, Lower(m[1])) ELSE {}
         IN  IF subset # {} THEN Some(Iloc0(df, subset)) ELSE None

\* a matcher without the guard of line 122, answering an empty Series
find_by_sku_or_keyword_EmptySeries(q, df) ==
    IF Len(df) = 0 THEN Some([c \in {} |-> << >>])
    ELSE LET m == CodeToken(q)
             subset == IF m # None THEN Subset(df, Lower(m[1])) ELSE {}
         IN  IF subset # {} THEN Some(Iloc0(df, subset))
             ELSE KeywordPhase(q, df)

find_by_sku_or_keyword(q, df) ==
    IF Len(df) = 0 THEN None
    ELSE LET m == CodeToken(q)
             subset == IF m # None THEN Subset(df, Lower(m[1])) ELSE {}
         IN  IF subset # {} THEN Some(Iloc0(df, subset))
             ELSE KeywordPhase(q, df)

\* (str(row.get("ma","")) or "").strip() or dflt
CodeOr(row, dflt) ==
    LET ma == Strip(RowGet(row, "ma"))
    IN  IF ma = << >> THEN dflt ELSE ma

make_price_line(row) ==
    LET ma == CodeOr(row, S_nocode)
        ht == clean_price_text(RowGet(row, "hang_thuong"))
        cc == clean_price_text(RowGet(row, "cao_cap"))
        parts == <<ma \o <<":">> >>
                 \o (IF ht # << >> THEN <<S_thuong_l \o ht \o <<".">> >> ELSE << >>)
                 \o (IF cc # << >> THEN <<S_caocap_l \o cc \o <<".">> >> ELSE << >>)
    IN  Strip(Join(<<" ">>, parts))

\* re.search(r"\b(cao\s*c<U+1EA5>p|cao cap)\b", t)
PremiumWord(t) ==
    \E i \in 1..Len(t) :
        /\ WordBoundary(t, i - 1)
        /\ \/ /\ LiteralAt(t, i, S_cao)
              /\ \E k \in 0..Len(t) :
                    /\ \A j \in 1..k : i + 2 + j <= Len(t) /\ t[i + 2 + j] \in Whitespace
                    /\ LiteralAt(t, i + 3 + k, S_cap)
                    /\ WordBoundary(t, i + 5 + k)
           \/ /\ LiteralAt(t, i, S_cao_cap)
              /\ WordBoundary(t, i + 6)

\* re.search(r"\b(th<U+01B0><U+1EDD>ng|thuong)\b", t)
StandardWord(t) ==
    \E i \in 1..Len(t) :
        /\ WordBoundary(t, i - 1)
        /\ \/ LiteralAt(t, i, S_thuong) /\ WordBoundary(t, i + 5)
           \/ LiteralAt(t, i, S_thuong_a) /\ WordBoundary(t, i + 5)

detect_variant(txt) ==
    LET t == Lower(txt)
    IN  IF PremiumWord(t) THEN "cao_cap"
        ELSE IF StandardWord(t) THEN "hang_thuong"
        ELSE "None"

(***************************************************************************)
(* Catalog pages.  A message text built with an f-string is the record of  *)
(* its template (msg) and of the values put into it; the callback data of  *)
(* a button is the string the code formats.                                *)
(***************************************************************************)
PAGE_SIZE == 10

S_CAT_P == <<"C","A","T","|","P","=">>

Max(a, b) == IF a >= b THEN a ELSE b
Min(a, b) == IF a <= b THEN a ELSE b

\* a button that carries the page after the one meant
Button_OffByOne(label, n) == [text |-> label, callback_data |-> S_CAT_P \o IntToStr(n + 1)]

\* a slice that takes the bound in, as df.loc does
Chunk_Inclusive(df, start) == Slice(df, start + 1, Min(start + PAGE_SIZE + 1, Len(df)))

\* InlineKeyboardButton(label, callback_data=f"CAT|P={n}")
Button(label, n) == [text |-> label, callback_data |-> S_CAT_P \o IntToStr(n)]

ClampPage_NoCeiling(page, max_page) == Max(1, page)

\* max(1, min(page, max_page))
ClampPage(page, max_page) == Max(1, Min(page, max_page))

\* df.iloc[start:start + PAGE_SIZE], start counted from 0
Chunk(df, start) == Slice(df, start + 1, Min(start + PAGE_SIZE, Len(df)))

\* the page builder without the guard of line 173
build_catalog_page_NoEmptyGuard(df, page0) ==
    LET total == Len(df)
    IN  IF total < 0
        THEN [text |-> [msg |-> "Danh muc trong."], kb |-> None]
        ELSE
        LET max_page == (total + PAGE_SIZE - 1) \div PAGE_SIZE
            page  == ClampPage(page0, max_page)
            start == (page - 1) * PAGE_SIZE
            chunk == Chunk(df, start)
            lines == [i \in 1..Len(chunk) |-> make_price_line(chunk[i])]
            btn_row ==
                (IF page > 1 THEN <<Button("Trang truoc", page - 1)>> ELSE << >>)
                \o (IF page < max_page THEN <<Button("Trang sau", page + 1)>> ELSE << >>)
        IN  [text |-> [msg |-> "Trang {page}/{max_page} - Tong {total} SP",
                       page |-> page, max_page |-> max_page, total |-> total,
                       lines |-> lines],
             kb |-> IF btn_row # << >> THEN Some(btn_row) ELSE None]

build_catalog_page(df, page0) ==
    LET total == Len(df)
    IN  IF total = 0
        THEN [text |-> [msg |-> "Danh muc trong."], kb |-> None]
        ELSE
        LET max_page == (total + PAGE_SIZE - 1) \div PAGE_SIZE
            page  == ClampPage(page0, max_page)
            start == (page - 1) * PAGE_SIZE
            chunk == Chunk(df, start)
            lines == [i \in 1..Len(chunk) |-> make_price_line(chunk[i])]
            btn_row ==
                (IF page > 1 THEN <<Button("Trang truoc", page - 1)>> ELSE << >>)
                \o (IF page < max_page THEN <<Button("Trang sau", page + 1)>> ELSE << >>)
        IN  [text |-> [msg |-> "Trang {page}/{max_page} - Tong {total} SP",
                       page |-> page, max_page |-> max_page, total |-> total,
                       lines |-> lines],
             kb |-> IF btn_row # << >> THEN Some(btn_row) ELSE None]

(***************************************************************************)
(* The bot's state.                                                        *)
(*   CATALOG    the module-level DataFrame load_catalog returned           *)
(*   user_data  context.user_data of each identity, a dict                 *)
(*   tasks      the handler coroutines suspended at an await that has code *)
(*              after it, a bag: telegram_webhook awaits process_update in *)
(*              the task of its own request, so handlers of concurrent     *)
(*              requests interleave at their awaits                        *)
(*   delivered  the number of requests received so far                     *)
(*   greetings  per identity, the number of welcome greetings sent         *)
(*   handoffs   per identity, the number of handoff messages sent since    *)
(*              the last recording of a product                            *)
(*   matched    per identity, what the most recent match records: None    *)
(*              before the first match                                     *)
(*   last       the last step taken: the identity, the update, the handler, *)
(*              user_data before the step, the reply the handler sent      *)
(***************************************************************************)
VARIABLES CATALOG, user_data, tasks, delivered, greetings, handoffs, matched, last

vars == <<CATALOG, user_data, tasks, delivered, greetings, handoffs, matched,
          last>>

Users == {"u1", "u2"}

\* the updates one behaviour delivers, and the handlers in flight at once
MaxUpdates == 3
MaxInFlight == 2

\* dict.get(k, dflt), d[k] = v, d.pop(k, None)
DictGet(d, k, dflt) == IF k \in DOMAIN d THEN d[k] ELSE dflt
DictSet(d, k, v) == [x \in (DOMAIN d) \cup {k} |-> IF x = k THEN v ELSE d[x]]
DictPop(d, k) == [x \in (DOMAIN d) \ {k} |-> d[x]]
EmptyDict == [x \in {} |-> TRUE]

\* context.user_data.get("last_product"): None or the recorded string
LastProduct(d) == IF "last_product" \in DOMAIN d THEN Some(d["last_product"]) ELSE None

\* the truth value of an optional string
Truthy(opt) == opt # None /\ opt[1] # << >>

MENU_LABELS ==
    [catalog  |-> <<"U+1F4CB"," ","D","a","n","h"," ","s","U+00E1","c","h"," ",
                    "s","U+1EA3","n"," ","p","h","U+1EA9","m">>,
     warranty |-> <<"U+1F6E1","U+FE0F"," ","C","h","U+1EBF"," ","U+0111","U+1ED9"," ",
                    "b","U+1EA3","o"," ","h","U+00E0","n","h">>,
     leadtime |-> <<"U+23F3"," ","T","h","U+1EDD","i"," ","g","i","a","n"," ",
                    "s","U+1EA3","n"," ","x","u","U+1EA5","t">>,
     contact  |-> <<"U+1F4DE"," ","L","i","U+00EA","n"," ","h","U+1EC7">>]

\* the fixed texts, each named by its constant or by its first words
WARRANTY_TEXT == [msg |-> "WARRANTY_TEXT"]
LEADTIME_TEXT == [msg |-> "LEADTIME_TEXT"]
CONTACT_TEXT  == [msg |-> "CONTACT_TEXT"]
WelcomeText   == [msg |-> "Chao mung ban den ECCues.", reply_markup |-> "MAIN_KB"]
PromptText    == [msg |-> "Go ma hoac ten mau de xem gia.", reply_markup |-> "MAIN_KB"]
FallbackText  == [msg |-> "Gui ma hoac ten mau de bao gia Thuong/Cao cap."]

\* f"Ban chon {...} cho {last_product}.\n\n{CONTACT_TEXT}"
HandoffText(variant, last_product) ==
    [msg |-> "Ban chon {tier} cho {last_product}.",
     tier |-> IF variant = "cao_cap" THEN "Cao cap" ELSE "Thuong",
     last_product |-> last_product,
     contact |-> CONTACT_TEXT]

\* the reply of the price branch is the line itself
PriceText(line) == [msg |-> "{line}", line |-> line]

\* the record of a step.  step is "call" for the step that takes the update
\* and sends the reply, "return" for the step after the await; reply is the
\* reply the handler sent; matcher is None when find_by_sku_or_keyword was
\* not called and else Some(its result)
StepRecord(u, upd, handler, step, reply, matcher) ==
    [user |-> u, update |-> upd, handler |-> handler, step |-> step,
     before |-> user_data, reply |-> reply, matcher |-> matcher]

\* a coroutine suspended at the await of line `at`, with its local `row`
Task(u, upd, handler, at, reply, row) ==
    [user |-> u, update |-> upd, handler |-> handler, at |-> at,
     reply |-> reply, row |-> row]

Suspend(t) == tasks' = tasks (+) SetToBag({t})
Resume(t)  == tasks' = tasks (-) SetToBag({t})
InFlight   == BagCardinality(tasks)

(***************************************************************************)
(* The handlers.  A handler runs from one await to the next without        *)
(* interruption; the reply of an await is sent in the step that reaches    *)
(* it.  A handler whose await is its last statement is one step.           *)
(***************************************************************************)

\* cmd_start up to its await: lines 205-210, or 205-206 and 213
cmd_start(u, upd) ==
    LET greeted == DictGet(user_data[u], "greeted", FALSE)
    IN  IF ~greeted
        THEN /\ last' = StepRecord(u, upd, "cmd_start", "call", Some(WelcomeText), None)
             /\ greetings' = [greetings EXCEPT ![u] = @ + 1]
             /\ Suspend(Task(u, upd, "cmd_start", 207, Some(WelcomeText), None))
             /\ UNCHANGED <<CATALOG, user_data, handoffs, matched>>
        ELSE /\ last' = StepRecord(u, upd, "cmd_start", "call", Some(PromptText), None)
             /\ UNCHANGED <<CATALOG, user_data, tasks, greetings, handoffs, matched>>

cmd_start_resume_Forgets(t) ==
    /\ t.handler = "cmd_start"
    /\ last' = StepRecord(t.user, t.update, "cmd_start", "return", t.reply, None)
    /\ Resume(t)
    /\ UNCHANGED <<CATALOG, user_data, greetings, handoffs, matched>>

\* cmd_start after its await: line 211
cmd_start_resume(t) ==
    /\ t.handler = "cmd_start"
    /\ user_data' = [user_data EXCEPT ![t.user] = DictSet(@, "greeted", TRUE)]
    /\ last' = StepRecord(t.user, t.update, "cmd_start", "return", t.reply, None)
    /\ Resume(t)
    /\ UNCHANGED <<CATALOG, greetings, handoffs, matched>>

\* a handler that sends one reply and touches nothing
ReplyOnly(u, upd, handler, text) ==
    /\ last' = StepRecord(u, upd, handler, "call", Some(text), None)
    /\ UNCHANGED <<CATALOG, user_data, tasks, greetings, handoffs, matched>>

cmd_warranty_Clears(u, upd) ==
    /\ last' = StepRecord(u, upd, "cmd_warranty", "call", Some(WARRANTY_TEXT), None)
    /\ user_data' = [user_data EXCEPT ![u] = DictPop(@, "last_product")]
    /\ UNCHANGED <<CATALOG, tasks, greetings, handoffs, matched>>

cmd_warranty(u, upd) == ReplyOnly(u, upd, "cmd_warranty", WARRANTY_TEXT)

cmd_leadtime(u, upd) == ReplyOnly(u, upd, "cmd_leadtime", LEADTIME_TEXT)

cmd_contact(u, upd) == ReplyOnly(u, upd, "cmd_contact", CONTACT_TEXT)

\* the reply of cmd_catalog: text and reply_markup
CatalogReply(page) == build_catalog_page(CATALOG, page)

\* a listing that sorts the module-level frame in place, last code first
cmd_catalog_SortsInPlace(u, upd) ==
    /\ last' = StepRecord(u, upd, "cmd_catalog", "call", Some(CatalogReply(1)), None)
    /\ CATALOG' = [i \in 1..Len(CATALOG) |-> CATALOG[Len(CATALOG) + 1 - i]]
    /\ UNCHANGED <<user_data, tasks, greetings, handoffs, matched>>

cmd_catalog(u, upd) == ReplyOnly(u, upd, "cmd_catalog", CatalogReply(1))

\* int(s) for a string of ASCII digits
RECURSIVE DigitsToInt(_)
DigitsToInt(s) ==
    IF Len(s) = 0 THEN 0
    ELSE 10 * DigitsToInt(SubSeq(s, 1, Len(s) - 1))
         + (CHOOSE d \in 0..9 : DigitSeq[d + 1] = s[Len(s)])

\* int(data.split("P=", 1)[1]), page = 1 on any exception: no "P=" in the
\* data (IndexError), or no decimal number after the first one (ValueError).
\* int() takes blanks around the number and a sign before it.
ParsePage(data) ==
    LET at == {i \in 1..Len(data) : LiteralAt(data, i, <<"P","=">>)}
    IN  IF at = {} THEN 1
        ELSE LET i == CHOOSE i \in at : \A j \in at : i <= j
                 rest == Strip(Slice(data, i + 2, Len(data)))
                 signed == rest # << >> /\ rest[1] \in {"+", "-"}
                 digits == IF signed THEN Slice(rest, 2, Len(rest)) ELSE rest
             IN  IF digits # << >> /\ \A j \in 1..Len(digits) : digits[j] \in Digits
                 THEN (IF signed /\ rest[1] = "-" THEN 0 - DigitsToInt(digits)
                       ELSE DigitsToInt(digits))
                 ELSE 1

\* the pattern of the CallbackQueryHandler, r"^CAT\|P=\d+$", line 288
NavPattern(data) ==
    /\ Len(data) > Len(S_CAT_P)
    /\ LiteralAt(data, 1, S_CAT_P)
    /\ \A j \in (Len(S_CAT_P) + 1)..Len(data) : data[j] \in Digits

\* on_catalog_nav, lines 229-237: the message is edited to the page asked
\* for; the handler reads no user_data and writes none
on_catalog_nav(u, upd) ==
    /\ NavPattern(upd.text)
    /\ ReplyOnly(u, upd, "on_catalog_nav", CatalogReply(ParsePage(upd.text)))

\* the function on_catalog_nav called with any callback data, as a caller
\* other than the handler registered at line 288 can call it
on_catalog_nav_unrouted(u, upd) ==
    ReplyOnly(u, upd, "on_catalog_nav", CatalogReply(ParsePage(upd.text)))

\* `if variant and last_product`, line 255
FollowUp_PremiumOnly(variant, last_product) ==
    variant = "cao_cap" /\ Truthy(last_product)

FollowUp(variant, last_product) == variant # "None" /\ Truthy(last_product)

\* on_text, the variant follow-up up to its await: lines 256-259
OnTextHandoff(u, upd, variant, last_product) ==
    /\ last' = StepRecord(u, upd, "on_text", "call",
                          Some(HandoffText(variant, last_product[1])), None)
    /\ Suspend(Task(u, upd, "on_text", 256,
                     Some(HandoffText(variant, last_product[1])), None))
    /\ handoffs' = [handoffs EXCEPT ![u] = @ + 1]
    /\ UNCHANGED <<CATALOG, user_data, greetings, matched>>

\* context.user_data.pop("last_product", None)
PopLastProduct_Keeps(d) == d

PopLastProduct(d) == DictPop(d, "last_product")

\* on_text, the variant follow-up after its await: lines 260-261
on_text_pop(t) ==
    /\ t.handler = "on_text" /\ t.at = 256
    /\ user_data' = [user_data EXCEPT ![t.user] = PopLastProduct(@)]
    /\ last' = StepRecord(t.user, t.update, "on_text", "return", t.reply, None)
    /\ Resume(t)
    /\ UNCHANGED <<CATALOG, greetings, handoffs, matched>>

\* the value line 268 records
Recorded_Raw(row) == RowGet(row, "ma")

Recorded(row) == CodeOr(row, S_chosen)

\* on_text, a matched row up to its await: lines 266-267
OnTextPrice(u, upd, row) ==
    /\ last' = StepRecord(u, upd, "on_text", "call",
                          Some(PriceText(make_price_line(row[1]))), Some(row))
    /\ Suspend(Task(u, upd, "on_text", 267,
                     Some(PriceText(make_price_line(row[1]))), row))
    /\ matched' = [matched EXCEPT ![u] = Some(Recorded(row[1]))]
    /\ UNCHANGED <<CATALOG, user_data, greetings, handoffs>>

\* a recording that keeps the product already recorded (setdefault)
on_text_record_KeepsFirst(t) ==
    /\ t.handler = "on_text" /\ t.at = 267
    /\ user_data' = [user_data EXCEPT
                        ![t.user] = IF "last_product" \in DOMAIN @ THEN @
                                    ELSE DictSet(@, "last_product", Recorded(t.row[1]))]
    /\ last' = StepRecord(t.user, t.update, "on_text", "return", t.reply, Some(t.row))
    /\ handoffs' = [handoffs EXCEPT ![t.user] = 0]
    /\ Resume(t)
    /\ UNCHANGED <<CATALOG, greetings, matched>>

\* on_text, a matched row after its await: lines 268-269
on_text_record(t) ==
    /\ t.handler = "on_text" /\ t.at = 267
    /\ user_data' = [user_data EXCEPT
                        ![t.user] = DictSet(@, "last_product", Recorded(t.row[1]))]
    /\ last' = StepRecord(t.user, t.update, "on_text", "return", t.reply, Some(t.row))
    /\ handoffs' = [handoffs EXCEPT ![t.user] = 0]
    /\ Resume(t)
    /\ UNCHANGED <<CATALOG, greetings, matched>>

OnTextFallback_Forgets(u, upd) ==
    /\ last' = StepRecord(u, upd, "on_text", "call", Some(FallbackText), Some(None))
    /\ user_data' = [user_data EXCEPT ![u] = DictPop(@, "last_product")]
    /\ UNCHANGED <<CATALOG, tasks, greetings, handoffs, matched>>

\* on_text, no row: line 272
OnTextFallback(u, upd) ==
    /\ last' = StepRecord(u, upd, "on_text", "call", Some(FallbackText), Some(None))
    /\ UNCHANGED <<CATALOG, user_data, tasks, greetings, handoffs, matched>>

\* on_text up to its first await: lines 240-267 and 272
on_text(u, upd) ==
    LET text == Strip(upd.text)
        variant == detect_variant(text)
        last_product == LastProduct(user_data[u])
        row == find_by_sku_or_keyword(text, CATALOG)
    IN  IF text = MENU_LABELS.catalog THEN cmd_catalog(u, upd)
        ELSE IF text = MENU_LABELS.warranty THEN cmd_warranty(u, upd)
        ELSE IF text = MENU_LABELS.leadtime THEN cmd_leadtime(u, upd)
        ELSE IF text = MENU_LABELS.contact THEN cmd_contact(u, upd)
        ELSE IF FollowUp(variant, last_product)
             THEN OnTextHandoff(u, upd, variant, last_product)
        ELSE IF row # None THEN OnTextPrice(u, upd, row)
        ELSE OnTextFallback(u, upd)

(***************************************************************************)
(* The conversations: catalogs, updates, the webhook.                      *)
(***************************************************************************)
Row(ma, ht, cc) == [ma |-> ma, hang_thuong |-> ht, cao_cap |-> cc]

R_Exc0601 == Row(<<"E","x","c","0","6","0","1">>, <<"1","7","m">>, <<"2","2">>)
R_Zen     == Row(<<"Z","e","n"," ","t","h","u","o","n","g">>, <<"9">>, << >>)
\* a row of a file without the code column, and a code with blanks around it
R_NoCode  == Row(<< >>, <<"1","7","m">>, <<"2","2">>)
R_Padded  == Row(<<" ","Z","e","n"," ">>, <<"1","2">>, <<"1","5">>)

\* what load_catalog can have returned: a price list, a list whose first
\* row has no code, and the empty DataFrame of a file that could not be read
Catalogs == { <<R_Exc0601, R_Zen>>, <<R_NoCode, R_Padded>>, << >> }

T_start    == <<"/","s","t","a","r","t">>
T_catalog  == <<"/","c","a","t","a","l","o","g">>
T_warranty == <<"/","w","a","r","r","a","n","t","y">>
T_leadtime == <<"/","l","e","a","d","t","i","m","e">>
T_contact  == <<"/","c","o","n","t","a","c","t">>

Command(text) == [kind |-> "command", text |-> text]
Text(text)    == [kind |-> "text", text |-> text]

\* the free texts of the model: a code, a number that is a price, the two
\* tiers, a tier next to a code, a keyword, an unknown word
FreeTexts ==
    { <<"e","x","c","0","6","0","1">>,
      <<"2","2">>,
      <<"c","a","o"," ","c","U+1EA5","p">>,
      <<"t","h","u","o","n","g">>,
      <<"E","x","c","0","6","0","1"," ","c","a","o"," ","c","a","p">>,
      <<"z","e","n">>,
      <<"x","y","z">> }

\* the four menu labels, one with blanks around it
MenuTexts ==
    { MENU_LABELS.catalog, MENU_LABELS.warranty, MENU_LABELS.leadtime,
      <<" ">> \o MENU_LABELS.contact \o <<" ">> }

TextUpdates == {Text(t) : t \in FreeTexts \cup MenuTexts}

Init ==
    /\ CATALOG \in Catalogs
    /\ user_data = [u \in Users |-> EmptyDict]
    /\ tasks = EmptyBag
    /\ delivered = 0
    /\ greetings = [u \in Users |-> 0]
    /\ handoffs = [u \in Users |-> 0]
    /\ matched = [u \in Users |-> None]
    /\ last = [user |-> "", update |-> Text(<< >>), handler |-> "", step |-> "",
               before |-> [u \in Users |-> EmptyDict], reply |-> None,
               matcher |-> None]

\* telegram_webhook, lines 302-309, for a body that decodes: the update is
\* handed to the handler application.process_update selects (lines 283-289)
Deliver ==
    /\ delivered < MaxUpdates
    /\ InFlight < MaxInFlight
    /\ delivered' = delivered + 1

Start    == \E u \in Users : Deliver /\ cmd_start(u, Command(T_start))
Warranty == \E u \in Users : Deliver /\ cmd_warranty(u, Command(T_warranty))
Leadtime == \E u \in Users : Deliver /\ cmd_leadtime(u, Command(T_leadtime))
Contact  == \E u \in Users : Deliver /\ cmd_contact(u, Command(T_contact))
Catalog  == \E u \in Users : Deliver /\ cmd_catalog(u, Command(T_catalog))
OnText   == \E u \in Users, upd \in TextUpdates : Deliver /\ on_text(u, upd)

\* the callback data of the model's button presses: the buttons of the first
\* and of the second page
NavPresses == {S_CAT_P \o IntToStr(n) : n \in 1..2}

Nav ==
    \E u \in Users, data \in NavPresses :
        Deliver /\ on_catalog_nav(u, [kind |-> "callback", text |-> data])

\* the answer of telegram_webhook to a body request.json() cannot decode
BadJsonResponse_Ok == [msg |-> "ok", status |-> 200]

BadJsonResponse == [msg |-> "bad json", status |-> 400]

\* telegram_webhook, lines 303-306, for a body that does not decode: the
\* except branch returns before Update.de_json and process_update; the
\* request has no identity and selects no handler
telegram_webhook_bad ==
    /\ last' = StepRecord("", [kind |-> "bad_json", text |-> << >>],
                          "telegram_webhook", "reject", Some(BadJsonResponse), None)
    /\ UNCHANGED <<CATALOG, user_data, tasks, greetings, handoffs, matched>>

BadJson == Deliver /\ telegram_webhook_bad

\* a suspended handler goes on when its await returns
StartResume == \E t \in BagToSet(tasks) : cmd_start_resume(t) /\ UNCHANGED delivered
TextPop     == \E t \in BagToSet(tasks) : on_text_pop(t) /\ UNCHANGED delivered
TextRecord  == \E t \in BagToSet(tasks) : on_text_record(t) /\ UNCHANGED delivered

Next ==
    \/ Start
    \/ Warranty
    \/ Leadtime
    \/ Contact
    \/ Catalog
    \/ OnText
    \/ StartResume
    \/ TextPop
    \/ TextRecord

Spec == Init /\ [][Next]_vars

\* the conversations with the messages handled one at a time: a request is
\* taken when no handler is in flight
NextSerial ==
    \/ InFlight = 0 /\ (Start \/ Warranty \/ Leadtime \/ Contact \/ Catalog \/ OnText)
    \/ StartResume
    \/ TextPop
    \/ TextRecord

SpecSerial == Init /\ [][NextSerial]_vars

\* the whole server: the conversations, the button presses and the requests
\* whose body does not decode
NextServer ==
    \/ Next
    \/ Nav
    \/ BadJson

SpecServer == Init /\ [][NextServer]_vars

(***************************************************************************)
(* Properties of the conversations, checked under Spec.  Each speaks of    *)
(* the step `last` records and of the state that step left.                *)
(***************************************************************************)
Labels == {MENU_LABELS.catalog, MENU_LABELS.warranty,
           MENU_LABELS.leadtime, MENU_LABELS.contact}

\* the last step took a text message that is no menu label
NonMenuCall ==
    /\ last.update.kind = "text"
    /\ last.step = "call"
    /\ Strip(last.update.text) \notin Labels

\* the tier the Variant Detector finds in the text of the last update
LastVariant == detect_variant(Strip(last.update.text))

\* the product recorded for the identity of the last step, before it
PendingBefore == LastProduct(last.before[last.user])

IsHandoff(reply) == reply # None /\ reply[1].msg = "Ban chon {tier} cho {last_product}."

\* C3: a non-menu message with a tier word, from an identity with a recorded
\* product, is answered by the handoff message that names the tier chosen
\* and the product remembered; when that handler has returned the identity
\* has no recorded product.
C3_VariantFollowUp ==
    /\ (NonMenuCall /\ LastVariant # "None" /\ PendingBefore # None)
        => /\ last.reply # None
           /\ last.reply[1].msg = "Ban chon {tier} cho {last_product}."
           /\ last.reply[1].tier = (IF LastVariant = "cao_cap" THEN "Cao cap" ELSE "Thuong")
           /\ last.reply[1].last_product = PendingBefore[1]
           /\ last.reply[1].contact = CONTACT_TEXT
    /\ (last.step = "return" /\ IsHandoff(last.reply))
        => LastProduct(user_data[last.user]) = None

C3_Witness ==
    /\ last.step = "return"
    /\ IsHandoff(last.reply)
    /\ PendingBefore # None
    /\ last.reply[1].tier = "Cao cap"
    /\ LastProduct(user_data[last.user]) = None

\* the last step is the return of an on_text that had matched a row
RecordedStep ==
    /\ last.handler = "on_text"
    /\ last.step = "return"
    /\ last.matcher # None
    /\ last.matcher[1] # None

\* the row the matcher returned to the handler of the last step
MatchedRow == last.matcher[1][1]

\* C4 as claimed: when the handler of a matched message has returned, the
\* recorded product of the identity is the code of the matched row.
C4_RecordsTheCode ==
    RecordedStep => LastProduct(user_data[last.user]) = Some(RowGet(MatchedRow, "ma"))

\* C4 as amended: when the handler of a matched message has returned, the
\* recorded product of the identity is the code of the matched row without
\* the blanks around it, or the placeholder when that is empty, whatever
\* was recorded before; and no other step than this one and the removal by
\* a variant follow-up changes the recorded product of any identity.
C4_RecordsOnMatch ==
    /\ RecordedStep =>
        LET code == Strip(RowGet(MatchedRow, "ma"))
        IN  LastProduct(user_data[last.user]) =
                Some(IF code = << >> THEN S_chosen ELSE code)
    /\ \A u \in Users :
        LastProduct(user_data[u]) # LastProduct(last.before[u])
            => /\ u = last.user
               /\ last.step = "return"
               /\ RecordedStep \/ IsHandoff(last.reply)

\* a match overwrites the product of an earlier match
C4_Witness ==
    /\ RecordedStep
    /\ PendingBefore # None
    /\ PendingBefore # LastProduct(user_data[last.user])
    /\ LastProduct(user_data[last.user]) = Some(Strip(RowGet(MatchedRow, "ma")))

\* C5: a message with a tier word, from an identity with a recorded product,
\* whose text also matches a catalog row: the handler sends the handoff for
\* the remembered product, does not call the matcher and changes no
\* recorded product in that step; when it has returned, nothing is recorded
\* for the identity (the row the text matches is not).
C5_VariantBeforeMatcher ==
    /\ ( /\ NonMenuCall
         /\ LastVariant # "None"
         /\ PendingBefore # None
         /\ find_by_sku_or_keyword(Strip(last.update.text), CATALOG) # None )
        => /\ IsHandoff(last.reply)
           /\ last.reply[1].last_product = PendingBefore[1]
           /\ last.matcher = None
           /\ user_data = last.before
    /\ ( /\ last.step = "return"
         /\ last.update.kind = "text"
         /\ LastVariant # "None"
         /\ PendingBefore # None
         /\ IsHandoff(last.reply) )
        => /\ last.matcher = None
           /\ LastProduct(user_data[last.user]) = None

\* the tier word of the text is also a keyword of a catalog row
C5_Witness ==
    /\ NonMenuCall
    /\ LastVariant = "hang_thuong"
    /\ PendingBefore # None
    /\ find_by_sku_or_keyword(Strip(last.update.text), CATALOG) # None
    /\ CodeToken(Strip(last.update.text)) = None
    /\ IsHandoff(last.reply)

\* the static or catalog reply of a menu label or menu command
MenuReply(text) ==
    IF text \in {MENU_LABELS.catalog, T_catalog} THEN Some(build_catalog_page(CATALOG, 1))
    ELSE IF text \in {MENU_LABELS.warranty, T_warranty} THEN Some(WARRANTY_TEXT)
    ELSE IF text \in {MENU_LABELS.leadtime, T_leadtime} THEN Some(LEADTIME_TEXT)
    ELSE Some(CONTACT_TEXT)

\* the last step took a menu label or one of the four menu commands
MenuCall ==
    /\ last.step = "call"
    /\ \/ last.update.kind = "text" /\ Strip(last.update.text) \in Labels
       \/ /\ last.update.kind = "command"
          /\ last.update.text \in {T_catalog, T_warranty, T_leadtime, T_contact}

\* C6: a menu label or menu command is answered by its static or catalog
\* reply and leaves user_data, so every recorded product, as it was.
C6_MenuPreservesState ==
    MenuCall =>
        /\ last.reply = MenuReply(Strip(last.update.text))
        /\ user_data = last.before

\* a menu label arrives while a variant choice is pending
C6_Witness ==
    /\ MenuCall
    /\ last.update.kind = "text"
    /\ PendingBefore # None
    /\ LastProduct(user_data[last.user]) = PendingBefore

\* C7: a non-menu message that is no variant follow-up and that the matcher
\* finds no row for, the catalog not being empty, is answered by the fixed
\* fallback prompt and leaves user_data as it was.
C7_UnrecognizedQuery ==
    ( /\ NonMenuCall
      /\ ~(LastVariant # "None" /\ PendingBefore # None)
      /\ Len(CATALOG) > 0
      /\ find_by_sku_or_keyword(Strip(last.update.text), CATALOG) = None )
    => /\ last.reply = Some(FallbackText)
       /\ user_data = last.before

\* an unknown word arrives while a variant choice is pending
C7_Witness ==
    /\ NonMenuCall
    /\ Len(CATALOG) > 0
    /\ find_by_sku_or_keyword(Strip(last.update.text), CATALOG) = None
    /\ PendingBefore # None
    /\ last.reply = Some(FallbackText)
    /\ LastProduct(user_data[last.user]) = PendingBefore

Greeted(d) == DictGet(d, "greeted", FALSE)

\* C8 as claimed: no identity is sent the welcome greeting more than once,
\* and no step resets a greeted flag.
C8_GreetedOnce ==
    \A u \in Users :
        /\ greetings[u] <= 1
        /\ Greeted(last.before[u]) => Greeted(user_data[u])

\* C9 as claimed: a first message of any kind, from an identity without a
\* conversation record, is answered by the welcome greeting.
C9_FirstMessageGreets ==
    (last.step = "call" /\ last.before[last.user] = EmptyDict)
        => last.reply = Some(WelcomeText)

\* C9 as amended: a start request from an identity whose greeted flag is not
\* set is answered by the welcome greeting, and when that handler has
\* returned the identity's greeted flag is set; no other message is
\* answered by the greeting.
C9_StartGreets ==
    /\ ( /\ last.update = Command(T_start)
         /\ last.step = "call"
         /\ ~Greeted(last.before[last.user]) )
        => last.reply = Some(WelcomeText)
    /\ ( /\ last.update = Command(T_start)
         /\ last.step = "return"
         /\ last.reply = Some(WelcomeText) )
        => Greeted(user_data[last.user])
    /\ (last.step = "call" /\ last.update # Command(T_start))
        => last.reply # Some(WelcomeText)

\* the first start request of an identity has been greeted and has returned
C9_Witness ==
    /\ last.update = Command(T_start)
    /\ last.step = "return"
    /\ last.before[last.user] = EmptyDict
    /\ greetings[last.user] = 1
    /\ Greeted(user_data[last.user])

\* C11: with an empty catalog the matcher finds nothing for any query, so
\* whatever messages were handled no identity has a recorded product and no
\* handoff message was sent.
C11_EmptyCatalogNoMemory ==
    Len(CATALOG) = 0
        => /\ \A u \in Users : LastProduct(user_data[u]) = None
           /\ \A u \in Users : handoffs[u] = 0
           /\ ~(last.handler = "on_text" /\ IsHandoff(last.reply))
           /\ last.matcher # None => last.matcher[1] = None

C11_Witness ==
    /\ Len(CATALOG) = 0
    /\ delivered = MaxUpdates
    /\ NonMenuCall
    /\ LastVariant # "None"
    /\ last.matcher = Some(None)
    /\ last.reply = Some(FallbackText)

\* C16 as stated: between two recordings of a product for an identity at
\* most one handoff message is sent to it, however the handlers of its
\* messages interleave.
C16_ConsumedOnce == \A u \in Users : handoffs[u] <= 1

\* C17: with the messages handled one at a time, a handoff message is sent
\* only to an identity with a recorded product, which is what the most
\* recent match of that identity recorded, and the message names it; a tier
\* word from an identity without a recorded product goes to the matcher
\* like any other query.
C17_HandoffNeedsPending ==
    /\ (last.handler = "on_text" /\ last.step = "call" /\ IsHandoff(last.reply))
        => /\ PendingBefore # None
           /\ PendingBefore = matched[last.user]
           /\ last.reply[1].last_product = PendingBefore[1]
    /\ (NonMenuCall /\ LastVariant # "None" /\ PendingBefore = None)
        => /\ ~IsHandoff(last.reply)
           /\ last.matcher = Some(find_by_sku_or_keyword(Strip(last.update.text), CATALOG))
           /\ last.reply = (IF last.matcher[1] = None THEN Some(FallbackText)
                            ELSE Some(PriceText(make_price_line(last.matcher[1][1]))))

\* a tier word after the handoff has consumed the product: no second
\* handoff, the word is searched for in the catalog
C17_Witness ==
    /\ NonMenuCall
    /\ LastVariant # "None"
    /\ PendingBefore = None
    /\ matched[last.user] # None
    /\ handoffs[last.user] = 1
    /\ last.matcher # None

(***************************************************************************)
(* Properties of the whole server, checked under SpecServer.               *)
(***************************************************************************)

\* C15: no step of any handler, in any interleaving of the handlers of
\* concurrent requests, changes the catalog: its rows, their cells and
\* their order stay what load_catalog returned.
C15_CatalogReadOnly == [][CATALOG' = CATALOG]_vars

\* every request of the behaviour was handled, a product was recorded from
\* the catalog, and the last step showed a page of it
C15_Witness ==
    /\ Len(CATALOG) > 0
    /\ delivered = MaxUpdates
    /\ last.handler = "on_catalog_nav"
    /\ \E u \in Users : LastProduct(user_data[u]) # None

\* C20: a request whose body does not decode is answered with status 400;
\* it starts no handler, it leaves the greeted flag and the recorded
\* product of every identity as they were, and the server takes the next
\* request.
C20_BadJsonRejected ==
    /\ last.update.kind = "bad_json"
        => /\ last.reply = Some([msg |-> "bad json", status |-> 400])
           /\ last.handler = "telegram_webhook"
           /\ user_data = last.before
           /\ (delivered < MaxUpdates /\ InFlight < MaxInFlight)
                => (ENABLED Start /\ ENABLED Warranty /\ ENABLED BadJson)
    /\ \A t \in BagToSet(tasks) : t.update.kind # "bad_json"

\* a body that does not decode, after a greeting and a recorded product
C20_Witness ==
    /\ last.update.kind = "bad_json"
    /\ last.reply[1].status = 400
    /\ \E u \in Users : Greeted(user_data[u])
    /\ \E u \in Users : LastProduct(user_data[u]) # None

(***************************************************************************)
(* The matcher alone: every query up to MaxQueryLen characters of a small  *)
(* alphabet against every catalog of up to two rows of a pool.  "." is the *)
(* one character of the alphabet that the keyword phase reads as a regular *)
(* expression.                                                             *)
(***************************************************************************)
MaxQueryLen == 3

QueryAlphabet == {"a", "B", "1", "2", " ", "."}

RECURSIVE StringsUpTo(_)
StringsUpTo(n) ==
    IF n = 0 THEN {<< >>}
    ELSE LET shorter == StringsUpTo(n - 1)
         IN  shorter \cup {Append(q, c) : q \in shorter, c \in QueryAlphabet}

Queries == StringsUpTo(MaxQueryLen)

MatchRowPool ==
    { Row(ma, ht, << >>) :
        ma \in { <<"1","1">>, <<"B","1","1">>, <<"1","1",".">>, <<"a">> },
        ht \in { << >>, <<"a","1","2">> } }

MatchCatalogs ==
    {<< >>} \cup {<<r>> : r \in MatchRowPool}
            \cup {<<r1, r2>> : r1 \in MatchRowPool, r2 \in MatchRowPool}

InitMatch ==
    /\ CATALOG \in MatchCatalogs
    /\ user_data = [u \in Users |-> EmptyDict]
    /\ tasks = EmptyBag
    /\ delivered = 0
    /\ greetings = [u \in Users |-> 0]
    /\ handoffs = [u \in Users |-> 0]
    /\ matched = [u \in Users |-> None]
    /\ last = [user |-> "", update |-> Text(<< >>), handler |-> "", step |-> "",
               before |-> [u \in Users |-> EmptyDict], reply |-> None,
               matcher |-> None]

\* row = find_by_sku_or_keyword(text, CATALOG), line 264, on its own: one
\* call in each behaviour
MatchCall ==
    \E q \in Queries :
        /\ last.handler = ""
        /\ last' = [user |-> "", update |-> Text(q),
                    handler |-> "find_by_sku_or_keyword", step |-> "call",
                    before |-> user_data, reply |-> None,
                    matcher |-> Some(find_by_sku_or_keyword(q, CATALOG))]
        /\ UNCHANGED <<CATALOG, user_data, tasks, delivered, greetings, handoffs, matched>>

NextMatch == MatchCall

SpecMatch == InitMatch /\ [][NextMatch]_vars

\* w occurs in s, character for character
Occurs(s, w) == \E i \in 1..(Len(s) - Len(w) + 1) : LiteralAt(s, i, w)

\* some field of the row contains w, letter case apart
RowContains(row, w) == \E c \in DOMAIN row : Occurs(Lower(row[c]), Lower(w))

MatcherCalled == last.handler = "find_by_sku_or_keyword"
Query  == last.update.text
Result == last.matcher[1]

\* the first row of the catalog that contains w
FirstRowContaining(w) ==
    CATALOG[CHOOSE i \in 1..Len(CATALOG) :
                /\ RowContains(CATALOG[i], w)
                /\ \A j \in 1..(i - 1) : ~RowContains(CATALOG[j], w)]

\* C1: for a query with a code-pattern token, if some row has a field that
\* contains the lower-cased first token, the matcher returns the first such
\* row in catalog order, whatever the whole query matches.
C1_CodePhaseDominates ==
    ( /\ MatcherCalled
      /\ CodeToken(Query) # None
      /\ \E i \in 1..Len(CATALOG) : RowContains(CATALOG[i], CodeToken(Query)[1]) )
    => Result = Some(FirstRowContaining(CodeToken(Query)[1]))

\* the query is more than its token, and the keyword phase alone would have
\* returned another row than the code-pattern phase did
C1_Witness ==
    /\ MatcherCalled
    /\ CodeToken(Query) # None
    /\ CodeToken(Query)[1] # Query
    /\ \E i \in 1..Len(CATALOG) : RowContains(CATALOG[i], CodeToken(Query)[1])
    /\ Result = Some(FirstRowContaining(CodeToken(Query)[1]))
    /\ KeywordPhase(Query, CATALOG) # None
    /\ KeywordPhase(Query, CATALOG) # Result

\* the rows whose code is the query
RowsWithCode(q) == {i \in 1..Len(CATALOG) : RowGet(CATALOG[i], "ma") = q}

\* the matcher returned a row at or before position i that contains q
ReturnedUpTo(i, q) ==
    /\ Result # None
    /\ \E j \in 1..i : Result = Some(CATALOG[j]) /\ RowContains(CATALOG[j], q)

\* C2 as claimed: a query that is the exact code of a row returns that row
\* or an earlier row that contains the whole code.
C2_ExactCodeFindsRow ==
    MatcherCalled => \A i \in RowsWithCode(Query) : ReturnedUpTo(i, Query)

\* C2 as amended: a query that is the exact code of a row, the code being
\* one code-pattern token (letters, two digits or more, letters and digits),
\* returns that row or an earlier row that contains the whole code.
C2_ExactTokenCodeFindsRow ==
    (MatcherCalled /\ CodeToken(Query) = Some(Query))
        => \A i \in RowsWithCode(Query) : ReturnedUpTo(i, Query)

\* the code of the second row is found in the first row, another row
C2_Witness ==
    /\ MatcherCalled
    /\ CodeToken(Query) = Some(Query)
    /\ Len(CATALOG) = 2
    /\ RowGet(CATALOG[2], "ma") = Query
    /\ RowGet(CATALOG[1], "ma") # Query
    /\ Result = Some(CATALOG[1])

(***************************************************************************)
(* The catalog pages alone: catalogs of 0..MaxCatalogRows rows with codes  *)
(* P1, P2, ..., the /catalog command, the navigation callbacks, and        *)
(* build_catalog_page called with any page number of -MaxPageArg..         *)
(* MaxPageArg and with 99.                                                 *)
(***************************************************************************)
MaxCatalogRows == 25
MaxPageArg == 5

PageCatalog(n) == [i \in 1..n |-> Row(<<"P">> \o IntToStr(i), <<"1","7","m">>, << >>)]

PageArgs == ((0 - MaxPageArg)..MaxPageArg) \cup {99}

\* the callback data a client can send: that of the buttons of the message
\* shown last, and any other data the handler's pattern lets through
NavData ==
    {S_CAT_P \o IntToStr(n) : n \in 0..MaxPageArg}
    \cup (IF last.reply # None /\ "kb" \in DOMAIN last.reply[1] /\ last.reply[1].kb # None
          THEN {last.reply[1].kb[1][i].callback_data : i \in 1..Len(last.reply[1].kb[1])}
          ELSE {})

InitPage ==
    /\ CATALOG \in {PageCatalog(n) : n \in 0..MaxCatalogRows}
    /\ user_data = [u \in Users |-> EmptyDict]
    /\ tasks = EmptyBag
    /\ delivered = 0
    /\ greetings = [u \in Users |-> 0]
    /\ handoffs = [u \in Users |-> 0]
    /\ matched = [u \in Users |-> None]
    /\ last = [user |-> "", update |-> Text(<< >>), handler |-> "", step |-> "",
               before |-> [u \in Users |-> EmptyDict], reply |-> None,
               matcher |-> None]

\* build_catalog_page(CATALOG, page) on its own
BuildPage ==
    \E page \in PageArgs :
        /\ last' = [user |-> "", update |-> [kind |-> "page", text |-> << >>, page |-> page],
                    handler |-> "build_catalog_page", step |-> "call",
                    before |-> user_data,
                    reply |-> Some(build_catalog_page(CATALOG, page)),
                    matcher |-> None]
        /\ UNCHANGED <<CATALOG, user_data, tasks, delivered, greetings, handoffs, matched>>

PageCatalogCmd ==
    \E u \in Users : cmd_catalog(u, Command(T_catalog)) /\ UNCHANGED delivered

PageNav ==
    \E u \in Users, data \in NavData :
        on_catalog_nav(u, [kind |-> "callback", text |-> data]) /\ UNCHANGED delivered

NextPage ==
    \/ BuildPage
    \/ PageCatalogCmd
    \/ PageNav

SpecPage == InitPage /\ [][NextPage]_vars

\* ceil(n / 10)
CeilTenth(n) == CHOOSE k \in 0..n : k * 10 >= n /\ (k - 1) * 10 < n

\* the page the last step asked build_catalog_page for
PageAsked ==
    IF last.update.kind = "page" THEN last.update.page
    ELSE IF last.update.kind = "callback"
         THEN DigitsToInt(Slice(last.update.text, Len(S_CAT_P) + 1, Len(last.update.text)))
    ELSE 1

PageBuilt == last.handler \in {"build_catalog_page", "cmd_catalog", "on_catalog_nav"}

Offers(kb, label) == kb # None /\ \E i \in 1..Len(kb[1]) : kb[1][i].text = label

\* C10: for a catalog of N >= 1 rows and any page number asked for, the page
\* shown is p = min(max(page, 1), ceil(N/10)), it lists the rows
\* (p-1)*10+1 .. min(p*10, N) in order, and it offers "previous" iff p > 1
\* and "next" iff p < ceil(N/10).
C10_PageClamped ==
    (PageBuilt /\ Len(CATALOG) >= 1) =>
        LET N == Len(CATALOG)
            p == Min(Max(PageAsked, 1), CeilTenth(N))
            first == (p - 1) * 10 + 1
            upto == Min(p * 10, N)
            shown == last.reply[1]
        IN  /\ shown.text.page = p
            /\ shown.text.max_page = CeilTenth(N)
            /\ shown.text.total = N
            /\ Len(shown.text.lines) = upto - first + 1
            /\ \A i \in 1..Len(shown.text.lines) :
                    shown.text.lines[i] = make_price_line(CATALOG[first + i - 1])
            /\ Offers(shown.kb, "Trang truoc") <=> p > 1
            /\ Offers(shown.kb, "Trang sau") <=> p < CeilTenth(N)

\* Scenario E: 25 rows, page 99 asked for, page 3 of 3 shown with its five
\* rows, a "previous" button and no "next" button
C10_Witness ==
    /\ PageBuilt
    /\ Len(CATALOG) = 25
    /\ PageAsked = 99
    /\ last.reply[1].text.page = 3
    /\ Len(last.reply[1].text.lines) = 5
    /\ Offers(last.reply[1].kb, "Trang truoc")
    /\ ~Offers(last.reply[1].kb, "Trang sau")

\* the lines of the pages 1..n one after the other
RECURSIVE PagesUpTo(_)
PagesUpTo(n) ==
    IF n = 0 THEN << >>
    ELSE PagesUpTo(n - 1) \o build_catalog_page(CATALOG, n).text.lines

\* C18: for a catalog of N rows the pages 1..ceil(N/10) list every row once
\* and in catalog order; every page but the last has 10 rows and the last
\* has between 1 and 10.
C18_PagesPartition ==
    LET N == Len(CATALOG)
        pages == CeilTenth(N)
    IN  /\ PagesUpTo(pages) = [i \in 1..N |-> make_price_line(CATALOG[i])]
        /\ \A i, j \in 1..N :
                make_price_line(CATALOG[i]) = make_price_line(CATALOG[j]) => i = j
        /\ \A p \in 1..(pages - 1) :
                Len(build_catalog_page(CATALOG, p).text.lines) = PAGE_SIZE
        /\ pages >= 1
            => Len(build_catalog_page(CATALOG, pages).text.lines) \in 1..PAGE_SIZE
        /\ PageBuilt /\ N >= 1
            => LET shown == last.reply[1].text
               IN  shown.lines = build_catalog_page(CATALOG, shown.page).text.lines

\* 21 rows: the third and last page has one row
C18_Witness ==
    /\ Len(CATALOG) = 21
    /\ PageBuilt
    /\ last.reply[1].text.page = 3
    /\ Len(last.reply[1].text.lines) = 1
    /\ Len(PagesUpTo(3)) = 21

(***************************************************************************)
(* Browsing: the listing, then the buttons of the message shown, pressed   *)
(* in any order; and on_catalog_nav called with data that is no button's.  *)
(* The update of a button press carries the message the button is on and   *)
(* the label of the button.                                                *)
(***************************************************************************)
StrayData ==
    { S_CAT_P,
      S_CAT_P \o <<"x">>,
      S_CAT_P \o <<"1", "x">>,
      <<"C","A","T","|","X">>,
      S_CAT_P \o <<"-", "1">>,
      S_CAT_P \o <<"+", "2">> }

\* the buttons of the message shown last
ButtonsShown ==
    IF last.reply # None /\ "kb" \in DOMAIN last.reply[1] /\ last.reply[1].kb # None
    THEN {last.reply[1].kb[1][i] : i \in 1..Len(last.reply[1].kb[1])}
    ELSE {}

BrowsePress ==
    \E u \in Users, b \in ButtonsShown :
        /\ on_catalog_nav(u, [kind |-> "callback", text |-> b.callback_data,
                              button |-> b.text, message |-> last.reply[1]])
        /\ UNCHANGED delivered

BrowseStray ==
    \E u \in Users, data \in StrayData :
        /\ last.reply # None
        /\ on_catalog_nav_unrouted(u, [kind |-> "callback", text |-> data,
                                       button |-> "", message |-> last.reply[1]])
        /\ UNCHANGED delivered

NextBrowse ==
    \/ PageCatalogCmd
    \/ BrowsePress
    \/ BrowseStray

SpecBrowse == InitPage /\ [][NextBrowse]_vars

\* int() takes the text: blanks, an optional sign, decimal digits
IntLiteral(s) ==
    LET t == Strip(s)
        d == IF t # << >> /\ t[1] \in {"+", "-"} THEN Slice(t, 2, Len(t)) ELSE t
    IN  d # << >> /\ \A i \in 1..Len(d) : d[i] \in Digits

\* the callback data has a page number: a "P=" with an int after the first
Parses(data) ==
    \E i \in 1..Len(data) :
        /\ LiteralAt(data, i, <<"P","=">>)
        /\ \A j \in 1..(i - 1) : ~LiteralAt(data, j, <<"P","=">>)
        /\ IntLiteral(Slice(data, i + 2, Len(data)))

Pressed == last.handler = "on_catalog_nav" /\ last.update.button # ""

\* C19: from the listing on, every page a button asks for lies in
\* 1..ceil(N/10) and is the page shown: the page before the one the
\* button's message shows for "previous", the page after it for "next";
\* on_catalog_nav with data that has no page number shows page 1.
C19_ButtonsStayInRange ==
    /\ Pressed
        => LET N == Len(CATALOG)
               p == last.update.message.text.page
           IN  /\ PageAsked \in 1..CeilTenth(N)
               /\ last.reply[1].text.page = PageAsked
               /\ last.update.button = "Trang truoc" => PageAsked = p - 1
               /\ last.update.button = "Trang sau" => PageAsked = p + 1
               /\ last.update.button \in {"Trang truoc", "Trang sau"}
    /\ (last.handler = "on_catalog_nav" /\ ~Parses(last.update.text))
        => last.reply = Some(build_catalog_page(CATALOG, 1))
    /\ last.handler = "cmd_catalog" /\ Len(CATALOG) >= 1
        => last.reply[1].text.page = 1

\* "next" twice and "previous" once: page 2 of 3 again
C19_Witness ==
    /\ Pressed
    /\ Len(CATALOG) = 25
    /\ last.update.button = "Trang truoc"
    /\ last.update.message.text.page = 3
    /\ last.reply[1].text.page = 2

(***************************************************************************)
(* Loading the catalog.  What pd.read_csv hands back is a frame: its       *)
(* column headers, and its rows as tuples of cells parallel to the         *)
(* headers.  A file is what each of the five encodings makes of it, in the *)
(* order tried: None where read_csv raises, else the frame read.           *)
(***************************************************************************)
DataFrame(columns, rows) == [columns |-> columns, rows |-> rows]

\* pd.DataFrame()
EmptyFrame == DataFrame(<< >>, << >>)

Encodings == <<"utf-8", "utf-8-sig", "latin1", "cp1252", "gb18030">>

\* the loop of lines 77-82: the first encoding that reads wins
FirstRead(file) ==
    LET ok == {i \in 1..Len(Encodings) : file[i] # None}
    IN  IF ok = {} THEN None
        ELSE file[CHOOSE i \in ok : \A j \in ok : i <= j]

\* the elements of seq at the positions in keep, in order
Filter(seq, keep) ==
    LET F[i \in 0..Len(seq)] ==
            IF i = 0 THEN << >>
            ELSE IF i \in keep THEN Append(F[i - 1], seq[i]) ELSE F[i - 1]
    IN  F[Len(seq)]

\* df.columns = [str(c).strip() for c in df.columns]
StripColumns(df) ==
    DataFrame([i \in 1..Len(df.columns) |-> Strip(df.columns[i])], df.rows)

\* re.search("^Unnamed", h, re.I)
S_unnamed == <<"u","n","n","a","m","e","d">>
Unnamed(h) == Len(h) >= Len(S_unnamed) /\ Lower(Slice(h, 1, Len(S_unnamed))) = S_unnamed

\* df.loc[:, ~df.columns.str.contains("^Unnamed", case=False)]
DropUnnamed(df) ==
    LET keep == {i \in 1..Len(df.columns) : ~Unnamed(df.columns[i])}
    IN  DataFrame(Filter(df.columns, keep),
                  [r \in 1..Len(df.rows) |-> Filter(df.rows[r], keep)])

\* the headers of rename_map and the canonical names
H_Ma       == <<"M","U+00E3">>
H_Thuong   == <<"H","U+00E0","n","g"," ","t","h","U+01B0","U+1EDD","n","g">>
H_Thuong_q == <<"H","U+00E0","n","g"," ","t","h","?","?","n","g">>
H_CaoCap   == <<"C","a","o"," ","c","U+1EA5","p">>
H_CaoCap_q == <<"C","a","o"," ","c","?","p">>
H_Time     == <<"T","h","U+1EDD","i"," ","g","i","a","n"," ","l","U+00E0","m">>
H_Time_q   == <<"T","h","?","i"," ","g","i","a","n"," ","l","U+00E0","m">>
C_ma            == <<"m","a">>
C_hang_thuong   == <<"h","a","n","g","_","t","h","u","o","n","g">>
C_cao_cap       == <<"c","a","o","_","c","a","p">>
C_thoi_gian_lam == <<"t","h","o","i","_","g","i","a","n","_","l","a","m">>

rename_map ==
    << <<H_Ma, C_ma>>,
       <<H_Thuong, C_hang_thuong>>, <<H_Thuong_q, C_hang_thuong>>,
       <<H_CaoCap, C_cao_cap>>, <<H_CaoCap_q, C_cao_cap>>,
       <<H_Time, C_thoi_gian_lam>>, <<H_Time_q, C_thoi_gian_lam>> >>

\* if k in df.columns: df = df.rename(columns={k: v})
Rename(df, k, v) ==
    DataFrame([i \in 1..Len(df.columns) |->
                    IF df.columns[i] = k THEN v ELSE df.columns[i]],
              df.rows)

\* the loop of lines 101-103 over the first n items of rename_map
RECURSIVE RenameAll(_, _)
RenameAll(df, n) ==
    IF n = 0 THEN df
    ELSE Rename(RenameAll(df, n - 1), rename_map[n][1], rename_map[n][2])

\* c in df.columns
HasColumn(df, c) == \E i \in 1..Len(df.columns) : df.columns[i] = c

\* if c not in df.columns: df[c] = ""
EnsureColumn(df, c) ==
    IF HasColumn(df, c) THEN df
    ELSE DataFrame(Append(df.columns, c),
                   [r \in 1..Len(df.rows) |-> Append(df.rows[r], << >>)])

load_catalog_NoEnsure(file) ==
    LET read == FirstRead(file)
        df == IF read = None THEN EmptyFrame ELSE read[1]
    IN  RenameAll(DropUnnamed(StripColumns(df)), Len(rename_map))

load_catalog(file) ==
    LET read == FirstRead(file)
        df == IF read = None THEN EmptyFrame ELSE read[1]
        renamed == RenameAll(DropUnnamed(StripColumns(df)), Len(rename_map))
    IN  EnsureColumn(EnsureColumn(EnsureColumn(renamed, C_ma), C_hang_thuong),
                     C_cao_cap)

\* row.get(c, "") on row r of the frame
Cell(df, r, c) ==
    LET at == {i \in 1..Len(df.columns) : df.columns[i] = c}
    IN  IF at = {} THEN << >>
        ELSE df.rows[r][CHOOSE i \in at : \A j \in at : i <= j]

\* the headers of the model's files that rename_map does not know
H_Ten     == <<"T","e","n">>
H_Gia     == <<"G","i","a">>
H_Index   == <<"U","n","n","a","m","e","d",":"," ","0">>
H_index   == <<"u","n","n","a","m","e","d",":"," ","3">>

\* a column name as the key of a row
ColName(h) ==
    CASE h = C_ma -> "ma"
      [] h = C_hang_thuong -> "hang_thuong"
      [] h = C_cao_cap -> "cao_cap"
      [] h = C_thoi_gian_lam -> "thoi_gian_lam"
      [] h = H_Ten -> "Ten"
      [] h = H_Gia -> "Gia"
      [] h = H_Index -> "Unnamed: 0"
      [] h = H_index -> "unnamed: 3"

\* the rows of the frame as the handlers read them: each row a function
\* from the column names to its cells
Rows(df) ==
    [r \in 1..Len(df.rows) |->
        [c \in {ColName(df.columns[i]) : i \in 1..Len(df.columns)} |->
            Cell(df, r, CHOOSE h \in {df.columns[i] : i \in 1..Len(df.columns)} :
                            ColName(h) = c)]]

\* the frames read_csv makes of the model's files: a clean price list, an
\* export with an index column, padded and mis-encoded headers, a file that
\* has the canonical names already and no premium column, a file with
\* other columns only, and a file of headers without rows
F_Clean  == DataFrame(<<H_Ma, H_Thuong, H_CaoCap>>,
                      << <<R_Exc0601.ma, R_Exc0601.hang_thuong, R_Exc0601.cao_cap>> >>)
F_Export == DataFrame(<<H_Index, <<" ">> \o H_Ma \o <<" ">>, H_Thuong_q, H_CaoCap_q, H_Time>>,
                      << <<<<"0">>, <<"Z","e","n">>, <<"9">>, << >>, <<"3">>>>,
                         <<<<"1">>, <<"A","1","2">>, <<"5">>, <<"7">>, <<"4">>>> >>)
F_Canon  == DataFrame(<<C_ma, C_hang_thuong>>, << <<<<"A","1","2">>, <<"5">>>> >>)
F_Other  == DataFrame(<<H_Ten, H_Gia>>, << <<<<"Z","e","n">>, <<"9">>>> >>)
F_Heads  == DataFrame(<<H_Ma, H_index>>, << >>)

Frames == {F_Clean, F_Export, F_Canon, F_Other, F_Heads}

\* the files: the first k-1 encodings raise, the k-th reads the frame and
\* the later ones would read something else; k past the last encoding is
\* the file nothing reads
Files ==
    { [i \in 1..Len(Encodings) |->
            IF i < k THEN None ELSE IF i = k THEN Some(f) ELSE Some(F_Other)]
        : k \in 1..(Len(Encodings) + 1), f \in Frames }

Unread(file) == \A i \in 1..Len(Encodings) : file[i] = None

InitLoad ==
    /\ CATALOG = << >>
    /\ user_data = [u \in Users |-> EmptyDict]
    /\ tasks = EmptyBag
    /\ delivered = 0
    /\ greetings = [u \in Users |-> 0]
    /\ handoffs = [u \in Users |-> 0]
    /\ matched = [u \in Users |-> None]
    /\ \E file \in Files :
        last = [user |-> "", update |-> [kind |-> "file", text |-> << >>, file |-> file],
                handler |-> "", step |-> "",
                before |-> [u \in Users |-> EmptyDict], reply |-> None,
                matcher |-> None]

\* CATALOG = load_catalog(CATALOG_PATH), line 111
LoadCatalog ==
    /\ last.handler = ""
    /\ CATALOG' = Rows(load_catalog(last.update.file))
    /\ last' = StepRecord("", last.update, "load_catalog", "load",
                          Some(load_catalog(last.update.file)), None)
    /\ UNCHANGED <<user_data, tasks, delivered, greetings, handoffs, matched>>

\* the handlers that read the catalog, once it is loaded; text messages are
\* handled one at a time here
Loaded == last.handler # ""

LoadedCatalog ==
    /\ Loaded
    /\ \E u \in Users : cmd_catalog(u, Command(T_catalog)) /\ UNCHANGED delivered

LoadedNav ==
    /\ Loaded
    /\ \E u \in Users, data \in NavPresses :
        on_catalog_nav(u, [kind |-> "callback", text |-> data]) /\ UNCHANGED delivered

LoadedText ==
    /\ Loaded
    /\ InFlight = 0
    /\ \E u \in Users, upd \in TextUpdates : on_text(u, upd) /\ UNCHANGED delivered

NextLoad ==
    \/ LoadCatalog
    \/ LoadedCatalog
    \/ LoadedNav
    \/ LoadedText
    \/ TextPop
    \/ TextRecord

SpecLoad == InitLoad /\ [][NextLoad]_vars

(***************************************************************************)
(* Properties of the load, checked under SpecLoad.                         *)
(***************************************************************************)
Canonical == {C_ma, C_hang_thuong, C_cao_cap}

\* the file has a column for the canonical name c: a header that is c, or
\* one rename_map turns into c, blanks around it apart
SourceHas(src, c) ==
    \E i \in 1..Len(src.columns) :
        \/ Strip(src.columns[i]) = c
        \/ \E n \in 1..Len(rename_map) : rename_map[n] = <<Strip(src.columns[i]), c>>

NoData == [text |-> [msg |-> "Danh muc trong."], kb |-> None]

\* C12 as stated: after a failed load product queries, too, are answered by
\* the "no data" message.
C12_QueriesSayNoData ==
    (Len(CATALOG) = 0 /\ NonMenuCall) => last.reply = Some(NoData)

\* C12: when no encoding reads the file load_catalog returns an empty
\* catalog; from then on the catalog listing and every page asked for by a
\* button is the "no data" message without buttons, and every product query
\* is answered by the fixed fallback prompt and records nothing.
C12_FailedLoadDegrades ==
    /\ (last.handler = "load_catalog" /\ Unread(last.update.file))
        => /\ last.reply # None
           /\ Len(last.reply[1].rows) = 0
           /\ CATALOG = << >>
    /\ (Len(CATALOG) = 0 /\ last.handler \in {"cmd_catalog", "on_catalog_nav"})
        => last.reply = Some(NoData)
    /\ (Len(CATALOG) = 0 /\ NonMenuCall)
        => /\ last.reply = Some(FallbackText)
           /\ last.matcher = Some(None)
           /\ user_data = last.before
           /\ tasks = EmptyBag

C12_Witness ==
    /\ Len(CATALOG) = 0
    /\ last.handler = "on_catalog_nav"
    /\ ParsePage(last.update.text) = 2
    /\ last.reply = Some(NoData)

\* C14: whatever the file, load_catalog returns a frame that has the
\* columns ma, hang_thuong and cao_cap, with "" in every row of a canonical
\* column the file did not have, and no column whose header starts with
\* "Unnamed"; the frame has the rows of the file, and it is the catalog.
C14_CanonicalColumns ==
    last.handler = "load_catalog" =>
        LET df == last.reply[1]
            read == FirstRead(last.update.file)
            src == IF read = None THEN EmptyFrame ELSE read[1]
        IN  /\ \A c \in Canonical : HasColumn(df, c)
            /\ \A c \in Canonical :
                    ~SourceHas(src, c)
                        => \A r \in 1..Len(df.rows) : Cell(df, r, c) = << >>
            /\ \A i \in 1..Len(df.columns) : ~Unnamed(df.columns[i])
            /\ Len(df.rows) = Len(src.rows)
            /\ CATALOG = Rows(df)

\* a file the third encoding reads, with none of the canonical columns
C14_Witness ==
    /\ last.handler = "load_catalog"
    /\ last.update.file[2] = None
    /\ last.update.file[3] = Some(F_Other)
    /\ last.reply[1].columns = <<H_Ten, H_Gia, C_ma, C_hang_thuong, C_cao_cap>>
    /\ Len(CATALOG) = 1
    /\ RowGet(CATALOG[1], "ma") = << >>

(***************************************************************************)
(* The price formatter alone: every text up to MaxPriceLen characters of a *)
(* small alphabet is formatted, and the result is formatted again.         *)
(***************************************************************************)
MaxPriceLen == 4

\* two digits, a letter, a blank, and the letter the suffix ends with
PriceAlphabet == {"1", "7", "m", " ", "u"}

PriceTexts == UNION {[1..n -> PriceAlphabet] : n \in 0..MaxPriceLen}

InitPrice ==
    /\ CATALOG = << >>
    /\ user_data = [u \in Users |-> EmptyDict]
    /\ tasks = EmptyBag
    /\ delivered = 0
    /\ greetings = [u \in Users |-> 0]
    /\ handoffs = [u \in Users |-> 0]
    /\ matched = [u \in Users |-> None]
    /\ \E s \in PriceTexts :
        last = [user |-> "", update |-> [kind |-> "price", text |-> s, first |-> s],
                handler |-> "", step |-> "",
                before |-> [u \in Users |-> EmptyDict], reply |-> None,
                matcher |-> None]

\* clean_price_text(s)
CleanPrice ==
    /\ last.handler = ""
    /\ last' = StepRecord("", last.update, "clean_price_text", "call",
                          Some(clean_price_text(last.update.text)), None)
    /\ UNCHANGED <<CATALOG, user_data, tasks, delivered, greetings, handoffs, matched>>

\* clean_price_text of the result
CleanAgain ==
    /\ last.handler = "clean_price_text"
    /\ last.step = "call"
    /\ last' = StepRecord("", [last.update EXCEPT !.text = last.reply[1]],
                          "clean_price_text", "again",
                          Some(clean_price_text(last.reply[1])), None)
    /\ UNCHANGED <<CATALOG, user_data, tasks, delivered, greetings, handoffs, matched>>

NextPrice ==
    \/ CleanPrice
    \/ CleanAgain

SpecPrice == InitPrice /\ [][NextPrice]_vars

HasDigit(s) == \E i \in 1..Len(s) : s[i] \in Digits

Blank(s) == \A i \in 1..Len(s) : s[i] \in Whitespace

\* s[i..j] is the first maximal run of digits of s
FirstRunAt(s, i, j) ==
    /\ i <= j
    /\ \A k \in 1..(i - 1) : s[k] \notin Digits
    /\ \A k \in i..j : s[k] \in Digits
    /\ j = Len(s) \/ s[j + 1] \notin Digits

\* C13: for a text with a decimal digit in it the formatter answers the first
\* run of digits followed by the suffix, and formatting that answer again
\* gives the same answer; for the empty text and for a text of blanks it
\* answers the empty string.
C13_CleanPriceIdempotent ==
    /\ (last.handler = "clean_price_text" /\ last.step = "call"
            /\ HasDigit(last.update.text))
        => \E i, j \in 1..Len(last.update.text) :
                /\ FirstRunAt(last.update.text, i, j)
                /\ last.reply[1] = Slice(last.update.text, i, j) \o S_trieu
    /\ (last.handler = "clean_price_text" /\ last.step = "again"
            /\ HasDigit(last.update.first))
        => last.reply[1] = last.update.text
    /\ (last.handler = "clean_price_text" /\ last.step = "call"
            /\ Blank(last.update.text))
        => last.reply[1] = << >>

\* " 17m" gives "17 trieu", and so does "17 trieu"
C13_Witness ==
    /\ last.handler = "clean_price_text"
    /\ last.step = "again"
    /\ last.update.first = <<" ", "1", "7", "m">>
    /\ last.update.text = <<"1", "7">> \o S_trieu
    /\ last.reply[1] = <<"1", "7">> \o S_trieu

====
